---- MODULE Spec2Model ----
(***************************************************************************)
(* Session store of auth-service (internal/db/session-methods.go).         *)
(*                                                                         *)
(* The Redis backend is three families of keys with a per-key expiry:      *)
(*   session:<id>          -> the JSON of a Session        (variable rec)  *)
(*   user_sessions:<email> -> a set of session ids         (variable idx)  *)
(*   blacklist:<token>     -> a marker                     (variable bl)   *)
(* Every RedisStore method is a sequence of backend calls; each backend    *)
(* call is one step of the calling process, so that the states between two *)
(* calls of a handler are states of the model.                             *)
(*                                                                         *)
(* Time is a discrete clock `now`; a key written with a TTL d at instant t *)
(* is visible at every instant < t + d and gone from t + d on.  The value  *)
(* of a blacklist key ("revoked", "deleted") is never read back: the store *)
(* only asks whether the key exists, so the model keeps its expiry only.   *)
(***************************************************************************)
EXTENDS Integers, FiniteSets, Sequences, TLC

\* ---------------------------------------------------------------- bounds
\* Last instant of the clock.
MaxTime == 2

\* ------------------------------------------------------------- constants
\* time.Minute, in clock ticks: the TTL given to a blacklist entry whose
\* session has already expired.
Minute == 2

\* The zero time.Time (time.Time{}.IsZero()); the clock starts after it.
ZeroTime == 0

\* The callers of the store.
Procs == {1, 2}
\* The caller of the specifications in which the calls do not overlap.
Solo == {1}

Ids == {"s1", "s2"}
Emails == {"a@b.com", "c@d.com"}
Tokens == {"t1", "t2"}

\* A key that does not exist in the backend.
NoKey == [none |-> TRUE]
\* A set key on which no EXPIRE was issued yet.
NoTTL == -1
\* No handler-local variables: the process is between two calls.
NoLoc == [none |-> TRUE]
\* Nothing returned: no call yet, or the clock has advanced since the return.
NoRet == [op |-> "none", id |-> "", err |-> "nil"]

\* Error values, by the fmt.Errorf message that makes them.
ErrIdRequired == "session ID is required"
ErrEmailRequired == "user email is required"
ErrTokenRequired == "refresh token is required"
ErrExpirationRequired == "expiration time is required"
ErrExpirationPast == "session expiration time must be in the future"
ErrNotFound == "session not found"
ErrAlreadyRevoked == "session is already revoked"
Ok == "nil"
Pending == "pending"
ErrSaveFailed == "failed to save session to Redis"
ErrIndexFailed == "failed to index session for user"
ErrExpireFailed == "failed to set expiration for user sessions index"
ErrBlacklistFailed == "failed to add token to blacklist"
ErrUpdateFailed == "failed to update session in Redis"
ErrSRemFailed == "failed to remove session from user index"
ErrDeleteFailed == "failed to delete session from Redis"
ErrGetFailed == "failed to get session from Redis"
ErrUnmarshal == "failed to unmarshal session data"
ErrArgEmailRequired == "user_email is required"
ErrArgIdRequired == "id is required"
ErrExistsFailed == "failed to check if token is blacklisted"
ErrSMembersFailed == "failed to get user sessions"
ErrMGetFailed == "failed to get sessions data"

\* gRPC status codes.
CodeOK == "OK"
CodeInvalidArgument == "InvalidArgument"
CodeNotFound == "NotFound"
CodeInternal == "Internal"

ValidationErrors ==
  {ErrIdRequired, ErrEmailRequired, ErrTokenRequired, ErrExpirationRequired, ErrExpirationPast}

\* ------------------------------------------------------------------ state
VARIABLES
  now,      \* time.Now()
  rec,      \* session:<id> keys: NoKey or [data, exp]
  idx,      \* user_sessions:<email> keys: NoKey or [members, exp]
  bl,       \* blacklist:<token> keys: NoKey or [exp]
  pc,       \* position of each caller inside the handler it runs
  loc,      \* the handler's local variables (session, ttl)
  ret,      \* what the call of each caller returned at this instant: [op, id, err]
  revokedUntil  \* per token: latest ExpiresAt among the sessions revoked or deleted with success

vars == <<now, rec, idx, bl, pc, loc, ret, revokedUntil>>
store == <<rec, idx, bl>>

\* Session, as the callers can pass it to CreateSession.
Session ==
  [Id : Ids \cup {""}, UserEmail : Emails \cup {""}, RefreshToken : Tokens \cup {""},
   IsRevoked : BOOLEAN, CreatedAt : {ZeroTime, 1}, ExpiresAt : ZeroTime..(MaxTime + 1)]

\* json.Marshal(session): the fields in declaration order.
Marshal(s) ==
  <<s.Id, s.UserEmail, s.RefreshToken, s.IsRevoked, s.CreatedAt, s.ExpiresAt>>

\* json.Unmarshal(data, &session)
Unmarshal(d) ==
  [Id |-> d[1], UserEmail |-> d[2], RefreshToken |-> d[3],
   IsRevoked |-> d[4], CreatedAt |-> d[5], ExpiresAt |-> d[6]]

\* Bytes under a session key that are no JSON of a Session.
Garbage == <<"{">>

\* json.Unmarshal(data, &session) returns no error.
Decodes(d) == Len(d) = 6

Max(a, b) == IF a >= b THEN a ELSE b

\* ---------------------------------------------------------- read methods
\* GetSession that takes a missing key for an empty record instead of redis.Nil.
GetSessionMissingAsEmpty(r, id) ==
  IF id = "" THEN [err |-> ErrIdRequired, session |-> NoLoc]
  ELSE IF r[id] = NoKey
  THEN [err |-> Ok, session |-> [Id |-> "", UserEmail |-> "a@b.com", RefreshToken |-> "t1",
                                  IsRevoked |-> FALSE, CreatedAt |-> ZeroTime, ExpiresAt |-> ZeroTime]]
  ELSE [err |-> Ok, session |-> Unmarshal(r[id].data)]

\* GetSession(ctx, id) on the session keys r: [err, session].
GetSession(r, id) ==
  IF id = "" THEN [err |-> ErrIdRequired, session |-> NoLoc]
  ELSE IF r[id] = NoKey THEN [err |-> ErrNotFound, session |-> NoLoc]
  ELSE IF ~Decodes(r[id].data) THEN [err |-> ErrUnmarshal, session |-> NoLoc]
  ELSE [err |-> Ok, session |-> Unmarshal(r[id].data)]

\* SMEMBERS of the index key of email.
SMembers(ix, email) == IF ix[email] = NoKey THEN {} ELSE ix[email].members

\* GetSessionsByEmail without the owner check of line 155.
GetSessionsByEmailNoOwnerCheck(r, ix, email) ==
  LET sessionIDs == SMembers(ix, email)
      found == {Unmarshal(r[id].data) : id \in {i \in sessionIDs : r[i] # NoKey}}
  IN {session \in found : ~session.IsRevoked}

\* GetSessionsByEmail without the revoked check of line 155.
GetSessionsByEmailKeepsRevoked(r, ix, email) ==
  LET sessionIDs == SMembers(ix, email)
      found == {Unmarshal(r[id].data) :
                  id \in {i \in sessionIDs : r[i] # NoKey /\ Decodes(r[i].data)}}
  IN {session \in found : session.UserEmail = email}

\* GetSessionsByEmail(ctx, email) on session keys r and index keys ix:
\* the sessions returned (the order is that of SMEMBERS, which is arbitrary).
GetSessionsByEmail(r, ix, email) ==
  LET sessionIDs == SMembers(ix, email)
      found == {Unmarshal(r[id].data) :
                  id \in {i \in sessionIDs : r[i] # NoKey /\ Decodes(r[i].data)}}
  IN {session \in found : session.UserEmail = email /\ ~session.IsRevoked}

\* IsTokenBlacklisted(ctx, token) on the blacklist keys b.
IsTokenBlacklisted(b, token) == b[token] # NoKey

\* ------------------------------------------------------------------ Init
Init ==
  /\ now = 1
  /\ rec = [id \in Ids |-> NoKey]
  /\ idx = [e \in Emails |-> NoKey]
  /\ bl = [t \in Tokens |-> NoKey]
  /\ pc = [p \in Procs |-> "idle"]
  /\ loc = [p \in Procs |-> NoLoc]
  /\ ret = [p \in Procs |-> NoRet]
  /\ revokedUntil = [t \in Tokens |-> ZeroTime]

\* ---------------------------------------------------------- CreateSession
\* CreateSet that rejects only a negative TTL: ExpiresAt = now passes.
CreateSetAcceptsNow(p, session) ==
  /\ pc[p] = "idle"
  /\ LET fail(e) ==
           /\ ret' = [ret EXCEPT ![p] = [op |-> "Create", id |-> session.Id, err |-> e]]
           /\ UNCHANGED <<now, rec, idx, bl, pc, loc, revokedUntil>>
         filled == IF session.CreatedAt = ZeroTime
                   THEN [session EXCEPT !.CreatedAt = now] ELSE session
         ttl == session.ExpiresAt - now
     IN IF session.Id = "" THEN fail(ErrIdRequired)
        ELSE IF session.UserEmail = "" THEN fail(ErrEmailRequired)
        ELSE IF session.RefreshToken = "" THEN fail(ErrTokenRequired)
        ELSE IF session.ExpiresAt = ZeroTime THEN fail(ErrExpirationRequired)
        ELSE IF ttl < 0 THEN fail(ErrExpirationPast)
        ELSE /\ rec' = [rec EXCEPT ![session.Id] = [data |-> Marshal(filled), exp |-> now + ttl]]
             /\ pc' = [pc EXCEPT ![p] = "c_sadd"]
             /\ loc' = [loc EXCEPT ![p] = [session |-> filled, ttl |-> ttl, in |-> session]]
             /\ ret' = [ret EXCEPT ![p] = [op |-> "Create", id |-> session.Id, err |-> Pending]]
             /\ UNCHANGED <<now, idx, bl, revokedUntil>>

\* CreateSet that stamps CreatedAt with the current time even when the caller set it.
CreateSetAlwaysStamps(p, session) ==
  /\ pc[p] = "idle"
  /\ LET fail(e) ==
           /\ ret' = [ret EXCEPT ![p] = [op |-> "Create", id |-> session.Id, err |-> e]]
           /\ UNCHANGED <<now, rec, idx, bl, pc, loc, revokedUntil>>
         filled == [session EXCEPT !.CreatedAt = now]
         ttl == session.ExpiresAt - now
     IN IF session.Id = "" THEN fail(ErrIdRequired)
        ELSE IF session.UserEmail = "" THEN fail(ErrEmailRequired)
        ELSE IF session.RefreshToken = "" THEN fail(ErrTokenRequired)
        ELSE IF session.ExpiresAt = ZeroTime THEN fail(ErrExpirationRequired)
        ELSE IF ttl <= 0 THEN fail(ErrExpirationPast)
        ELSE /\ rec' = [rec EXCEPT ![session.Id] = [data |-> Marshal(filled), exp |-> now + ttl]]
             /\ pc' = [pc EXCEPT ![p] = "c_sadd"]
             /\ loc' = [loc EXCEPT ![p] = [session |-> filled, ttl |-> ttl, in |-> session]]
             /\ ret' = [ret EXCEPT ![p] = [op |-> "Create", id |-> session.Id, err |-> Pending]]
             /\ UNCHANGED <<now, idx, bl, revokedUntil>>

\* Lines 24-62: validation, CreatedAt default, TTL, SET session:<id>.
CreateSet(p, session) ==
  /\ pc[p] = "idle"
  /\ LET fail(e) ==
           /\ ret' = [ret EXCEPT ![p] = [op |-> "Create", id |-> session.Id, err |-> e]]
           /\ UNCHANGED <<now, rec, idx, bl, pc, loc, revokedUntil>>
         filled == IF session.CreatedAt = ZeroTime
                   THEN [session EXCEPT !.CreatedAt = now] ELSE session
         ttl == session.ExpiresAt - now
     IN IF session.Id = "" THEN fail(ErrIdRequired)
        ELSE IF session.UserEmail = "" THEN fail(ErrEmailRequired)
        ELSE IF session.RefreshToken = "" THEN fail(ErrTokenRequired)
        ELSE IF session.ExpiresAt = ZeroTime THEN fail(ErrExpirationRequired)
        ELSE IF ttl <= 0 THEN fail(ErrExpirationPast)
        ELSE /\ rec' = [rec EXCEPT ![session.Id] = [data |-> Marshal(filled), exp |-> now + ttl]]
             /\ pc' = [pc EXCEPT ![p] = "c_sadd"]
             /\ loc' = [loc EXCEPT ![p] = [session |-> filled, ttl |-> ttl, in |-> session]]
             /\ ret' = [ret EXCEPT ![p] = [op |-> "Create", id |-> session.Id, err |-> Pending]]
             /\ UNCHANGED <<now, idx, bl, revokedUntil>>

\* CreateSet, with the key that the SET replaces remembered in old and the index
\* keys of that instant in oldIdx (no variables of the code: what a caller who
\* had read the keys before the call knows).
CreateSetOver(p, session) ==
  /\ pc[p] = "idle"
  /\ LET fail(e) ==
           /\ ret' = [ret EXCEPT ![p] = [op |-> "Create", id |-> session.Id, err |-> e]]
           /\ UNCHANGED <<now, rec, idx, bl, pc, loc, revokedUntil>>
         filled == IF session.CreatedAt = ZeroTime
                   THEN [session EXCEPT !.CreatedAt = now] ELSE session
         ttl == session.ExpiresAt - now
     IN IF session.Id = "" THEN fail(ErrIdRequired)
        ELSE IF session.UserEmail = "" THEN fail(ErrEmailRequired)
        ELSE IF session.RefreshToken = "" THEN fail(ErrTokenRequired)
        ELSE IF session.ExpiresAt = ZeroTime THEN fail(ErrExpirationRequired)
        ELSE IF ttl <= 0 THEN fail(ErrExpirationPast)
        ELSE /\ rec' = [rec EXCEPT ![session.Id] = [data |-> Marshal(filled), exp |-> now + ttl]]
             /\ pc' = [pc EXCEPT ![p] = "c_sadd"]
             /\ loc' = [loc EXCEPT ![p] = [session |-> filled, ttl |-> ttl, in |-> session,
                                           old |-> rec[session.Id], oldIdx |-> idx]]
             /\ ret' = [ret EXCEPT ![p] = [op |-> "Create", id |-> session.Id, err |-> Pending]]
             /\ UNCHANGED <<now, idx, bl, revokedUntil>>

\* Lines 64-70: SADD user_sessions:<email> id. A set key made by SADD has no TTL.
CreateSAdd(p) ==
  /\ pc[p] = "c_sadd"
  /\ LET e == loc[p].session.UserEmail
         id == loc[p].session.Id
     IN idx' = [idx EXCEPT ![e] =
                  IF idx[e] = NoKey THEN [members |-> {id}, exp |-> NoTTL]
                  ELSE [members |-> idx[e].members \cup {id}, exp |-> idx[e].exp]]
  /\ pc' = [pc EXCEPT ![p] = "c_expire"]
  /\ UNCHANGED <<now, rec, bl, loc, ret, revokedUntil>>

\* Lines 72-80: EXPIRE user_sessions:<email> ttl, return session.
CreateExpire(p) ==
  /\ pc[p] = "c_expire"
  /\ LET e == loc[p].session.UserEmail
     IN idx' = [idx EXCEPT ![e] =
                  IF idx[e] = NoKey THEN NoKey
                  ELSE [members |-> idx[e].members, exp |-> now + loc[p].ttl]]
  /\ pc' = [pc EXCEPT ![p] = "idle"]
  /\ loc' = [loc EXCEPT ![p] = NoLoc]
  /\ ret' = [ret EXCEPT ![p] = [op |-> "Create", id |-> loc[p].session.Id, err |-> Ok]]
  /\ UNCHANGED <<now, rec, bl, revokedUntil>>

\* ---------------------------------------------------------- RevokeSession
\* BlacklistTTL without the clamp of lines 183-185.
BlacklistTTLNoClamp(session, t) == session.ExpiresAt - t

\* The TTL of lines 182-185 and 222-225.
BlacklistTTL(session, t) ==
  LET ttl == session.ExpiresAt - t IN IF ttl <= 0 THEN Minute ELSE ttl

\* RevokeGet without the already-revoked check of lines 176-178.
RevokeGetNoRevokedCheck(p, id) ==
  /\ pc[p] = "idle"
  /\ LET got == GetSession(rec, id)
     IN IF got.err # Ok
        THEN /\ ret' = [ret EXCEPT ![p] = [op |-> "Revoke", id |-> id, err |-> got.err]]
             /\ UNCHANGED <<now, rec, idx, bl, pc, loc, revokedUntil>>
        ELSE /\ pc' = [pc EXCEPT ![p] = "r_blacklist"]
             /\ loc' = [loc EXCEPT ![p] = [session |-> got.session, id |-> id]]
             /\ ret' = [ret EXCEPT ![p] = [op |-> "Revoke", id |-> id, err |-> Pending]]
             /\ UNCHANGED <<now, rec, idx, bl, revokedUntil>>

\* Lines 164-178: GetSession, the already-revoked check.
RevokeGet(p, id) ==
  /\ pc[p] = "idle"
  /\ LET got == GetSession(rec, id)
         fail(e) ==
           /\ ret' = [ret EXCEPT ![p] = [op |-> "Revoke", id |-> id, err |-> e]]
           /\ UNCHANGED <<now, rec, idx, bl, pc, loc, revokedUntil>>
     IN IF got.err # Ok THEN fail(got.err)
        ELSE IF got.session.IsRevoked THEN fail(ErrAlreadyRevoked)
        ELSE /\ pc' = [pc EXCEPT ![p] = "r_blacklist"]
             /\ loc' = [loc EXCEPT ![p] = [session |-> got.session, id |-> id]]
             /\ ret' = [ret EXCEPT ![p] = [op |-> "Revoke", id |-> id, err |-> Pending]]
             /\ UNCHANGED <<now, rec, idx, bl, revokedUntil>>

\* RevokeBlacklist that writes the entry under the session id instead of the
\* token: no key of the token's blacklist is made.
RevokeBlacklistWrongKey(p) ==
  /\ pc[p] = "r_blacklist"
  /\ LET ttl == BlacklistTTL(loc[p].session, now)
     IN loc' = [loc EXCEPT ![p] = [session |-> loc[p].session, id |-> loc[p].id, ttl |-> ttl]]
  /\ pc' = [pc EXCEPT ![p] = "r_set"]
  /\ UNCHANGED <<now, rec, idx, bl, ret, revokedUntil>>

\* Lines 180-189: SET blacklist:<token> "revoked" ttl.
RevokeBlacklist(p) ==
  /\ pc[p] = "r_blacklist"
  /\ LET ttl == BlacklistTTL(loc[p].session, now)
     IN /\ bl' = [bl EXCEPT ![loc[p].session.RefreshToken] = [exp |-> now + ttl]]
        /\ loc' = [loc EXCEPT ![p] = [session |-> loc[p].session, id |-> loc[p].id, ttl |-> ttl]]
  /\ pc' = [pc EXCEPT ![p] = "r_set"]
  /\ UNCHANGED <<now, rec, idx, ret, revokedUntil>>

\* RevokeSet that also stamps CreatedAt with the time of the rewrite.
RevokeSetRestamps(p) ==
  /\ pc[p] = "r_set"
  /\ LET session == [loc[p].session EXCEPT !.IsRevoked = TRUE, !.CreatedAt = now]
     IN /\ rec' = [rec EXCEPT ![loc[p].id] = [data |-> Marshal(session), exp |-> now + loc[p].ttl]]
        /\ revokedUntil' = [revokedUntil EXCEPT ![session.RefreshToken] =
                              IF session.ExpiresAt > now THEN Max(@, session.ExpiresAt) ELSE @]
  /\ pc' = [pc EXCEPT ![p] = "idle"]
  /\ loc' = [loc EXCEPT ![p] = NoLoc]
  /\ ret' = [ret EXCEPT ![p] = [op |-> "Revoke", id |-> loc[p].id, err |-> Ok]]
  /\ UNCHANGED <<now, idx, bl>>

\* RevokeSet that saves the session as it was read, IsRevoked not set.
RevokeSetKeepsFlag(p) ==
  /\ pc[p] = "r_set"
  /\ LET session == loc[p].session
     IN /\ rec' = [rec EXCEPT ![loc[p].id] = [data |-> Marshal(session), exp |-> now + loc[p].ttl]]
        /\ revokedUntil' = [revokedUntil EXCEPT ![session.RefreshToken] =
                              IF session.ExpiresAt > now THEN Max(@, session.ExpiresAt) ELSE @]
  /\ pc' = [pc EXCEPT ![p] = "idle"]
  /\ loc' = [loc EXCEPT ![p] = NoLoc]
  /\ ret' = [ret EXCEPT ![p] = [op |-> "Revoke", id |-> loc[p].id, err |-> Ok]]
  /\ UNCHANGED <<now, idx, bl>>

\* Lines 191-205: IsRevoked = true, SET session:<id> ttl.
RevokeSet(p) ==
  /\ pc[p] = "r_set"
  /\ LET session == [loc[p].session EXCEPT !.IsRevoked = TRUE]
     IN /\ rec' = [rec EXCEPT ![loc[p].id] = [data |-> Marshal(session), exp |-> now + loc[p].ttl]]
        /\ revokedUntil' = [revokedUntil EXCEPT ![session.RefreshToken] =
                              IF session.ExpiresAt > now THEN Max(@, session.ExpiresAt) ELSE @]
  /\ pc' = [pc EXCEPT ![p] = "idle"]
  /\ loc' = [loc EXCEPT ![p] = NoLoc]
  /\ ret' = [ret EXCEPT ![p] = [op |-> "Revoke", id |-> loc[p].id, err |-> Ok]]
  /\ UNCHANGED <<now, idx, bl>>

\* ---------------------------------------------------------- DeleteSession
\* Lines 209-218: GetSession.
DeleteGet(p, id) ==
  /\ pc[p] = "idle"
  /\ LET got == GetSession(rec, id)
     IN IF got.err # Ok
        THEN /\ ret' = [ret EXCEPT ![p] = [op |-> "Delete", id |-> id, err |-> got.err]]
             /\ UNCHANGED <<now, rec, idx, bl, pc, loc, revokedUntil>>
        ELSE /\ pc' = [pc EXCEPT ![p] = "d_blacklist"]
             /\ loc' = [loc EXCEPT ![p] = [session |-> got.session, id |-> id]]
             /\ ret' = [ret EXCEPT ![p] = [op |-> "Delete", id |-> id, err |-> Pending]]
             /\ UNCHANGED <<now, rec, idx, bl, revokedUntil>>

\* DeleteBlacklist that writes the entry under the session id instead of the token:
\* no key of the token's blacklist is made.
DeleteBlacklistWrongKey(p) ==
  /\ pc[p] = "d_blacklist"
  /\ pc' = [pc EXCEPT ![p] = "d_srem"]
  /\ UNCHANGED <<now, rec, idx, bl, loc, ret, revokedUntil>>

\* Lines 220-229: SET blacklist:<token> "deleted" ttl.
DeleteBlacklist(p) ==
  /\ pc[p] = "d_blacklist"
  /\ LET ttl == BlacklistTTL(loc[p].session, now)
     IN bl' = [bl EXCEPT ![loc[p].session.RefreshToken] = [exp |-> now + ttl]]
  /\ pc' = [pc EXCEPT ![p] = "d_srem"]
  /\ UNCHANGED <<now, rec, idx, loc, ret, revokedUntil>>

\* DeleteSRem that removes the whole index key of the user.
DeleteSRemDropsIndex(p) ==
  /\ pc[p] = "d_srem"
  /\ idx' = [idx EXCEPT ![loc[p].session.UserEmail] = NoKey]
  /\ pc' = [pc EXCEPT ![p] = "d_del"]
  /\ UNCHANGED <<now, rec, bl, loc, ret, revokedUntil>>

\* DeleteSRem that leaves the index as it is.
DeleteSRemSkipped(p) ==
  /\ pc[p] = "d_srem"
  /\ pc' = [pc EXCEPT ![p] = "d_del"]
  /\ UNCHANGED <<now, rec, idx, bl, loc, ret, revokedUntil>>

\* Lines 231-235: SREM user_sessions:<email> id. A set left empty is removed.
DeleteSRem(p) ==
  /\ pc[p] = "d_srem"
  /\ LET e == loc[p].session.UserEmail
         left == SMembers(idx, e) \ {loc[p].id}
     IN idx' = [idx EXCEPT ![e] =
                  IF left = {} THEN NoKey ELSE [members |-> left, exp |-> idx[e].exp]]
  /\ pc' = [pc EXCEPT ![p] = "d_del"]
  /\ UNCHANGED <<now, rec, bl, loc, ret, revokedUntil>>

\* Lines 237-243: DEL session:<id>.
DeleteDel(p) ==
  /\ pc[p] = "d_del"
  /\ rec' = [rec EXCEPT ![loc[p].id] = NoKey]
  /\ LET session == loc[p].session
     IN revokedUntil' = [revokedUntil EXCEPT ![session.RefreshToken] =
                           IF session.ExpiresAt > now THEN Max(@, session.ExpiresAt) ELSE @]
  /\ pc' = [pc EXCEPT ![p] = "idle"]
  /\ loc' = [loc EXCEPT ![p] = NoLoc]
  /\ ret' = [ret EXCEPT ![p] = [op |-> "Delete", id |-> loc[p].id, err |-> Ok]]
  /\ UNCHANGED <<now, idx, bl>>

\* ------------------------------------------------------- backend failures
\* A backend call that fails changes nothing in the backend and returns an error
\* to the handler.

\* The handler of p returns error e: its local variables are gone.
Return(p, op, e) ==
  /\ pc' = [pc EXCEPT ![p] = "idle"]
  /\ ret' = [ret EXCEPT ![p] = [op |-> op, id |-> loc[p].session.Id, err |-> e]]
  /\ loc' = [loc EXCEPT ![p] = NoLoc]

\* CreateSetFail that still adds the id to the user's index before it returns.
CreateSetFailIndexes(p, session) ==
  /\ pc[p] = "idle"
  /\ session.Id # "" /\ session.UserEmail # "" /\ session.RefreshToken # ""
  /\ session.ExpiresAt # ZeroTime /\ session.ExpiresAt - now > 0
  /\ idx' = [idx EXCEPT ![session.UserEmail] =
               IF @ = NoKey THEN [members |-> {session.Id}, exp |-> NoTTL]
               ELSE [members |-> @.members \cup {session.Id}, exp |-> @.exp]]
  /\ ret' = [ret EXCEPT ![p] = [op |-> "Create", id |-> session.Id, err |-> ErrSaveFailed]]
  /\ UNCHANGED <<now, rec, bl, pc, loc, revokedUntil>>

\* Lines 24-62 when the SET of line 60 fails: the session passed the validation,
\* the handler returns at line 61.
CreateSetFail(p, session) ==
  /\ pc[p] = "idle"
  /\ session.Id # "" /\ session.UserEmail # "" /\ session.RefreshToken # ""
  /\ session.ExpiresAt # ZeroTime /\ session.ExpiresAt - now > 0
  /\ ret' = [ret EXCEPT ![p] = [op |-> "Create", id |-> session.Id, err |-> ErrSaveFailed]]
  /\ UNCHANGED <<now, rec, idx, bl, pc, loc, revokedUntil>>

\* Line 66 when SADD fails: the handler goes on to the DEL of line 68.
CreateSAddFail(p) ==
  /\ pc[p] = "c_sadd"
  /\ pc' = [pc EXCEPT ![p] = "c_sadd_undo"]
  /\ UNCHANGED <<now, rec, idx, bl, loc, ret, revokedUntil>>

\* CreateSAddUndoDel that returns the error of the DEL when the DEL fails.
CreateSAddUndoDelEscalates(p, ok) ==
  /\ pc[p] = "c_sadd_undo"
  /\ rec' = IF ok THEN [rec EXCEPT ![loc[p].session.Id] = NoKey] ELSE rec
  /\ Return(p, "Create", IF ok THEN ErrIndexFailed ELSE ErrDeleteFailed)
  /\ UNCHANGED <<now, idx, bl, revokedUntil>>

\* Lines 68-69: DEL session:<id>, its result ignored, return the error.
CreateSAddUndoDel(p, ok) ==
  /\ pc[p] = "c_sadd_undo"
  /\ rec' = IF ok THEN [rec EXCEPT ![loc[p].session.Id] = NoKey] ELSE rec
  /\ Return(p, "Create", ErrIndexFailed)
  /\ UNCHANGED <<now, idx, bl, revokedUntil>>

\* Line 73 when EXPIRE fails: the handler goes on to the DEL of line 75.
CreateExpireFail(p) ==
  /\ pc[p] = "c_expire"
  /\ pc' = [pc EXCEPT ![p] = "c_expire_undo_del"]
  /\ UNCHANGED <<now, rec, idx, bl, loc, ret, revokedUntil>>

\* Line 75: DEL session:<id>, its result ignored.
CreateExpireUndoDel(p, ok) ==
  /\ pc[p] = "c_expire_undo_del"
  /\ rec' = IF ok THEN [rec EXCEPT ![loc[p].session.Id] = NoKey] ELSE rec
  /\ loc' = [loc EXCEPT ![p] = [session |-> loc[p].session, ttl |-> loc[p].ttl,
                                 in |-> loc[p].in, old |-> loc[p].old,
                                 oldIdx |-> loc[p].oldIdx, delOk |-> ok]]
  /\ pc' = [pc EXCEPT ![p] = "c_expire_undo_srem"]
  /\ UNCHANGED <<now, idx, bl, ret, revokedUntil>>

\* CreateExpireUndoSRem that leaves the index as it is.
CreateExpireUndoSRemSkipped(p, ok) ==
  /\ pc[p] = "c_expire_undo_srem"
  /\ loc' = [loc EXCEPT ![p] = [session |-> loc[p].session, ttl |-> loc[p].ttl,
                                 in |-> loc[p].in, old |-> loc[p].old,
                                 oldIdx |-> loc[p].oldIdx, delOk |-> loc[p].delOk, sremOk |-> ok]]
  /\ pc' = [pc EXCEPT ![p] = "c_expire_fail"]
  /\ UNCHANGED <<now, rec, idx, bl, ret, revokedUntil>>

\* Line 76: SREM user_sessions:<email> id, its result ignored.
CreateExpireUndoSRem(p, ok) ==
  /\ pc[p] = "c_expire_undo_srem"
  /\ LET e == loc[p].session.UserEmail
         left == SMembers(idx, e) \ {loc[p].session.Id}
     IN idx' = IF ok
               THEN [idx EXCEPT ![e] =
                       IF left = {} THEN NoKey ELSE [members |-> left, exp |-> idx[e].exp]]
               ELSE idx
  /\ loc' = [loc EXCEPT ![p] = [session |-> loc[p].session, ttl |-> loc[p].ttl,
                                 in |-> loc[p].in, old |-> loc[p].old,
                                 oldIdx |-> loc[p].oldIdx, delOk |-> loc[p].delOk, sremOk |-> ok]]
  /\ pc' = [pc EXCEPT ![p] = "c_expire_fail"]
  /\ UNCHANGED <<now, rec, bl, ret, revokedUntil>>

\* Line 77: return the error of the failed EXPIRE.
CreateExpireReturn(p) ==
  /\ pc[p] = "c_expire_fail"
  /\ Return(p, "Create", ErrExpireFailed)
  /\ UNCHANGED <<now, rec, idx, bl, revokedUntil>>

\* Lines 187-189 when the blacklist SET fails.
RevokeBlacklistFail(p) ==
  /\ pc[p] = "r_blacklist"
  /\ Return(p, "Revoke", ErrBlacklistFailed)
  /\ UNCHANGED <<now, rec, idx, bl, revokedUntil>>

\* Lines 201-203 when the record SET fails.
RevokeSetFail(p) ==
  /\ pc[p] = "r_set"
  /\ Return(p, "Revoke", ErrUpdateFailed)
  /\ UNCHANGED <<now, rec, idx, bl, revokedUntil>>

\* Lines 227-229 when the blacklist SET fails.
DeleteBlacklistFail(p) ==
  /\ pc[p] = "d_blacklist"
  /\ Return(p, "Delete", ErrBlacklistFailed)
  /\ UNCHANGED <<now, rec, idx, bl, revokedUntil>>

\* DeleteSRemFail that takes the blacklist entry back before it returns.
DeleteSRemFailRollsBack(p) ==
  /\ pc[p] = "d_srem"
  /\ bl' = [bl EXCEPT ![loc[p].session.RefreshToken] = NoKey]
  /\ Return(p, "Delete", ErrSRemFailed)
  /\ UNCHANGED <<now, rec, idx, revokedUntil>>

\* Lines 233-235 when SREM fails.
DeleteSRemFail(p) ==
  /\ pc[p] = "d_srem"
  /\ Return(p, "Delete", ErrSRemFailed)
  /\ UNCHANGED <<now, rec, idx, bl, revokedUntil>>

\* Lines 239-241 when DEL fails.
DeleteDelFail(p) ==
  /\ pc[p] = "d_del"
  /\ Return(p, "Delete", ErrDeleteFailed)
  /\ UNCHANGED <<now, rec, idx, bl, revokedUntil>>

\* The process running the handler of p dies between two backend calls: nothing
\* is returned and the calls not yet made are never made.
Crash(p) ==
  /\ pc[p] # "idle"
  /\ pc' = [pc EXCEPT ![p] = "idle"]
  /\ loc' = [loc EXCEPT ![p] = NoLoc]
  /\ ret' = [ret EXCEPT ![p] = NoRet]
  /\ UNCHANGED <<now, rec, idx, bl, revokedUntil>>

\* ------------------------------------------------------------- read calls
\* An outside writer leaves bytes that are no Session under an existing session
\* key; the key keeps its TTL.
Corrupt(id) ==
  /\ rec[id] # NoKey
  /\ rec[id].data # Garbage
  /\ rec' = [rec EXCEPT ![id] = [data |-> Garbage, exp |-> rec[id].exp]]
  /\ UNCHANGED <<now, idx, bl, pc, loc, ret, revokedUntil>>

\* The error of RedisStore.GetSession(ctx, id) when the GET of line 91 fails
\* (fails) or not.
GetSessionErr(r, id, fails) ==
  IF id = "" THEN ErrIdRequired
  ELSE IF fails THEN ErrGetFailed
  ELSE GetSession(r, id).err

\* A call of RedisStore.GetSession(ctx, id).
GetSessionCall(p, id, fails) ==
  /\ pc[p] = "idle"
  /\ ret' = [ret EXCEPT ![p] = [op |-> "Get", id |-> id, err |-> GetSessionErr(rec, id, fails)]]
  /\ UNCHANGED <<now, rec, idx, bl, pc, loc, revokedUntil>>

\* IsTokenBlacklistedCall that takes a missing key for a backend error.
IsTokenBlacklistedCallMissingIsError(p, token, fails) ==
  /\ pc[p] = "idle"
  /\ ret' = [ret EXCEPT ![p] =
               IF token = ""
               THEN [op |-> "IsBlacklisted", id |-> token, err |-> ErrTokenRequired, val |-> FALSE]
               ELSE IF fails \/ ~IsTokenBlacklisted(bl, token)
               THEN [op |-> "IsBlacklisted", id |-> token, err |-> ErrExistsFailed, val |-> FALSE]
               ELSE [op |-> "IsBlacklisted", id |-> token, err |-> Ok, val |-> TRUE]]
  /\ UNCHANGED <<now, rec, idx, bl, pc, loc, revokedUntil>>

\* A call of RedisStore.IsTokenBlacklisted(ctx, token); fails: the EXISTS of line
\* 253 fails. val is the boolean returned.
IsTokenBlacklistedCall(p, token, fails) ==
  /\ pc[p] = "idle"
  /\ ret' = [ret EXCEPT ![p] =
               IF token = ""
               THEN [op |-> "IsBlacklisted", id |-> token, err |-> ErrTokenRequired, val |-> FALSE]
               ELSE IF fails
               THEN [op |-> "IsBlacklisted", id |-> token, err |-> ErrExistsFailed, val |-> FALSE]
               ELSE [op |-> "IsBlacklisted", id |-> token, err |-> Ok,
                     val |-> IsTokenBlacklisted(bl, token)]]
  /\ UNCHANGED <<now, rec, idx, bl, pc, loc, revokedUntil>>

\* A call of RedisStore.GetSessionsByEmail(ctx, email); fails names the backend
\* read that fails: "smembers" (line 116), "mget" (line 132, issued only for
\* a non-empty index) or "none". sessions is the slice returned, as a set.
GetSessionsByEmailCall(p, email, fails) ==
  /\ pc[p] = "idle"
  /\ ret' = [ret EXCEPT ![p] =
               IF email = ""
               THEN [op |-> "List", id |-> email, err |-> ErrEmailRequired, sessions |-> {}]
               ELSE IF fails = "smembers"
               THEN [op |-> "List", id |-> email, err |-> ErrSMembersFailed, sessions |-> {}]
               ELSE IF SMembers(idx, email) = {}
               THEN [op |-> "List", id |-> email, err |-> Ok, sessions |-> {}]
               ELSE IF fails = "mget"
               THEN [op |-> "List", id |-> email, err |-> ErrMGetFailed, sessions |-> {}]
               ELSE [op |-> "List", id |-> email, err |-> Ok,
                     sessions |-> GetSessionsByEmail(rec, idx, email)]]
  /\ UNCHANGED <<now, rec, idx, bl, pc, loc, revokedUntil>>

\* ------------------------------------------------------------ gRPC server
\* ServiceParams.GetSessionTTL(): at least one day, longer than Minute.
SessionTTL == 3

\* A SessionReq: HasExpiresAt is false when the ExpiresAt timestamp is nil.
SessionReq ==
  [Id : {"s1", ""}, UserEmail : Emails \cup {""}, RefreshToken : {"t1", ""},
   IsRevoked : BOOLEAN, HasExpiresAt : BOOLEAN, ExpiresAt : 1..(MaxTime + 1)]

\* ConvertProtoToSession: CreatedAt is left zero, ExpiresAt is zero for a nil
\* timestamp.
ConvertProtoToSession(sessionReq) ==
  [Id |-> sessionReq.Id,
   UserEmail |-> sessionReq.UserEmail,
   RefreshToken |-> sessionReq.RefreshToken,
   IsRevoked |-> sessionReq.IsRevoked,
   CreatedAt |-> ZeroTime,
   ExpiresAt |-> IF sessionReq.HasExpiresAt THEN sessionReq.ExpiresAt ELSE ZeroTime]

\* Server.CreateSession up to the first backend call of the store: the two
\* argument checks, ExpiresAt set from the configuration, RedisStore.CreateSession
\* (whose error the server wraps as codes.Internal).
ServerCreateSession(p, req) ==
  LET session == ConvertProtoToSession(req)
  IN IF session.UserEmail = "" \/ session.Id = ""
     THEN /\ pc[p] = "idle"
          /\ ret' = [ret EXCEPT ![p] =
                       [op |-> "Create", id |-> session.Id,
                        err |-> IF session.UserEmail = ""
                                THEN ErrArgEmailRequired ELSE ErrArgIdRequired]]
          /\ UNCHANGED <<now, rec, idx, bl, pc, loc, revokedUntil>>
     ELSE CreateSet(p, [session EXCEPT !.ExpiresAt = now + SessionTTL])

\* Server.GetSession: the argument check, RedisStore.GetSession, every error of
\* it returned as codes.NotFound (lines 95-103).
ServerGetSession(p, id, fails) ==
  /\ pc[p] = "idle"
  /\ ret' = [ret EXCEPT ![p] =
               [op |-> "ServerGet", id |-> id,
                err |-> IF id = "" THEN CodeInvalidArgument
                        ELSE IF GetSessionErr(rec, id, fails) # Ok THEN CodeNotFound
                        ELSE CodeOK]]
  /\ UNCHANGED <<now, rec, idx, bl, pc, loc, revokedUntil>>

\* Server.RevokeSession up to the first step of RedisStore.RevokeSession: the
\* argument check, RedisStore.GetSession with every error of it returned as
\* codes.NotFound (lines 129-136), then the call of line 138.
ServerRevokeSession(p, id, fails) ==
  IF id = "" \/ GetSessionErr(rec, id, fails) # Ok
  THEN /\ pc[p] = "idle"
       /\ ret' = [ret EXCEPT ![p] =
                    [op |-> "ServerRevoke", id |-> id,
                     err |-> IF id = "" THEN CodeInvalidArgument ELSE CodeNotFound]]
       /\ UNCHANGED <<now, rec, idx, bl, pc, loc, revokedUntil>>
  ELSE RevokeGet(p, id)

\* Server.RevokeSession after RedisStore.RevokeSession has returned: every error
\* of it is returned as codes.Internal (lines 138-146).
ServerRevokeReturn(p) ==
  /\ pc[p] = "idle"
  /\ ret[p].op = "Revoke"
  /\ ret' = [ret EXCEPT ![p] =
               [op |-> "ServerRevoke", id |-> ret[p].id,
                err |-> IF ret[p].err # Ok THEN CodeInternal ELSE CodeOK]]
  /\ UNCHANGED <<now, rec, idx, bl, pc, loc, revokedUntil>>

\* ------------------------------------------------------------------ clock
\* What is left of a key at instant t: nothing once its TTL has run out.
Reap(k, t) == IF k # NoKey /\ k.exp # NoTTL /\ k.exp <= t THEN NoKey ELSE k

\* The clock advances by one tick and the backend drops the keys whose TTL ran out.
Tick ==
  /\ now < MaxTime
  /\ now' = now + 1
  /\ rec' = [id \in Ids |-> Reap(rec[id], now + 1)]
  /\ idx' = [e \in Emails |-> Reap(idx[e], now + 1)]
  /\ bl' = [t \in Tokens |-> Reap(bl[t], now + 1)]
  /\ revokedUntil' = [t \in Tokens |-> IF revokedUntil[t] <= now + 1 THEN ZeroTime ELSE revokedUntil[t]]
  /\ ret' = [p \in Procs |-> NoRet]
  /\ UNCHANGED <<pc, loc>>

Idle == \A p \in Procs : pc[p] = "idle"

\* The sessions the callers of Spec create: "s1" moves between the two users and
\* keeps its token, "s2" stays with one user and may carry the token of "s1".
\* CreatedAt is left unset and IsRevoked false, as ConvertProtoToSession of a
\* new session request leaves them.
LifecycleSessions ==
  {x \in Session :
     /\ \/ x.Id = "s1" /\ x.UserEmail \in Emails /\ x.RefreshToken = "t1"
        \/ x.Id = "s2" /\ x.UserEmail = "a@b.com" /\ x.RefreshToken \in Tokens
     /\ ~x.IsRevoked
     /\ x.CreatedAt = ZeroTime
     /\ x.ExpiresAt > now}

\* One caller at a time, no backend failure; the clock advances between calls.
Next ==
  \/ \E p \in Solo, session \in LifecycleSessions : CreateSet(p, session)
  \/ \E p \in Solo : CreateSAdd(p)
  \/ \E p \in Solo : CreateExpire(p)
  \/ \E p \in Solo, id \in Ids : RevokeGet(p, id)
  \/ \E p \in Solo : RevokeBlacklist(p)
  \/ \E p \in Solo : RevokeSet(p)
  \/ \E p \in Solo, id \in Ids : DeleteGet(p, id)
  \/ \E p \in Solo : DeleteBlacklist(p)
  \/ \E p \in Solo : DeleteSRem(p)
  \/ \E p \in Solo : DeleteDel(p)
  \/ (Idle /\ Tick)

Spec == Init /\ [][Next]_vars

\* The sessions the callers of InputSpec pass: one id, one user and one token,
\* each of them possibly empty, and every value of the other fields.
InputSessions ==
  {x \in Session :
     x.Id \in {"s1", ""} /\ x.UserEmail \in {"a@b.com", ""} /\ x.RefreshToken \in {"t1", ""}}

\* One caller, one session id, every shape of input.
InputNext ==
  \/ \E p \in Solo, session \in InputSessions : CreateSet(p, session)
  \/ \E p \in Solo : CreateSAdd(p)
  \/ \E p \in Solo : CreateExpire(p)
  \/ \E p \in Solo, id \in {"s1", ""} : RevokeGet(p, id)
  \/ \E p \in Solo : RevokeBlacklist(p)
  \/ \E p \in Solo : RevokeSet(p)
  \/ \E p \in Solo, id \in {"s1", ""} : DeleteGet(p, id)
  \/ \E p \in Solo : DeleteBlacklist(p)
  \/ \E p \in Solo : DeleteSRem(p)
  \/ \E p \in Solo : DeleteDel(p)
  \/ (Idle /\ Tick)

InputSpec == Init /\ [][InputNext]_vars

\* The sessions the callers of ClockSpec create: one id, one user, one token.
ClockSessions ==
  {x \in Session :
     /\ x.Id = "s1" /\ x.UserEmail = "a@b.com" /\ x.RefreshToken = "t1"
     /\ ~x.IsRevoked
     /\ x.CreatedAt = ZeroTime
     /\ x.ExpiresAt > now}

\* One caller, no backend failure; the clock also advances between two backend
\* calls of a handler.
ClockNext ==
  \/ \E p \in Solo, session \in ClockSessions : CreateSet(p, session)
  \/ \E p \in Solo : CreateSAdd(p)
  \/ \E p \in Solo : CreateExpire(p)
  \/ \E p \in Solo : RevokeGet(p, "s1")
  \/ \E p \in Solo : RevokeBlacklist(p)
  \/ \E p \in Solo : RevokeSet(p)
  \/ \E p \in Solo : DeleteGet(p, "s1")
  \/ \E p \in Solo : DeleteBlacklist(p)
  \/ \E p \in Solo : DeleteSRem(p)
  \/ \E p \in Solo : DeleteDel(p)
  \/ Tick

ClockSpec == Init /\ [][ClockNext]_vars

\* The sessions the callers of FailSpec create: one id that moves between the
\* two users.
FailSessions ==
  {x \in Session :
     /\ x.Id = "s1" /\ x.UserEmail \in Emails /\ x.RefreshToken = "t1"
     /\ ~x.IsRevoked
     /\ x.CreatedAt = ZeroTime
     /\ x.ExpiresAt > now}

\* One caller; every backend write may fail and the caller may die inside a
\* handler; the clock advances between calls.
FailNext ==
  \/ \E p \in Solo, session \in FailSessions : CreateSetOver(p, session)
  \/ \E p \in Solo, session \in FailSessions : CreateSetFail(p, session)
  \/ \E p \in Solo : CreateSAdd(p)
  \/ \E p \in Solo : CreateSAddFail(p)
  \/ \E p \in Solo, ok \in BOOLEAN : CreateSAddUndoDel(p, ok)
  \/ \E p \in Solo : CreateExpire(p)
  \/ \E p \in Solo : CreateExpireFail(p)
  \/ \E p \in Solo, ok \in BOOLEAN : CreateExpireUndoDel(p, ok)
  \/ \E p \in Solo, ok \in BOOLEAN : CreateExpireUndoSRem(p, ok)
  \/ \E p \in Solo : CreateExpireReturn(p)
  \/ \E p \in Solo : RevokeGet(p, "s1")
  \/ \E p \in Solo : RevokeBlacklist(p)
  \/ \E p \in Solo : RevokeBlacklistFail(p)
  \/ \E p \in Solo : RevokeSet(p)
  \/ \E p \in Solo : RevokeSetFail(p)
  \/ \E p \in Solo : DeleteGet(p, "s1")
  \/ \E p \in Solo : DeleteBlacklist(p)
  \/ \E p \in Solo : DeleteBlacklistFail(p)
  \/ \E p \in Solo : DeleteSRem(p)
  \/ \E p \in Solo : DeleteSRemFail(p)
  \/ \E p \in Solo : DeleteDel(p)
  \/ \E p \in Solo : DeleteDelFail(p)
  \/ \E p \in Solo : Crash(p)
  \/ (Idle /\ Tick)

FailSpec == Init /\ [][FailNext]_vars

\* One caller of the gRPC CreateSession and RevokeSession and of the store's
\* Delete; the backend calls of Revoke may fail; the clock advances between calls.
ServerNext ==
  \/ \E p \in Solo, req \in SessionReq : ServerCreateSession(p, req)
  \/ \E p \in Solo : CreateSAdd(p)
  \/ \E p \in Solo : CreateExpire(p)
  \/ \E p \in Solo, id \in {"s1", ""}, fails \in BOOLEAN : ServerRevokeSession(p, id, fails)
  \/ \E p \in Solo : RevokeBlacklist(p)
  \/ \E p \in Solo : RevokeBlacklistFail(p)
  \/ \E p \in Solo : RevokeSet(p)
  \/ \E p \in Solo : RevokeSetFail(p)
  \/ \E p \in Solo : ServerRevokeReturn(p)
  \/ \E p \in Solo : DeleteGet(p, "s1")
  \/ \E p \in Solo : DeleteBlacklist(p)
  \/ \E p \in Solo : DeleteSRem(p)
  \/ \E p \in Solo : DeleteDel(p)
  \/ (Idle /\ Tick)

ServerSpec == Init /\ [][ServerNext]_vars

\* The sessions the callers of ReadSpec create: "s1" moves between the two users,
\* "s2" stays with one user and lives as long as the clock runs.
ReadSessions ==
  {x \in Session :
     /\ \/ x.Id = "s1" /\ x.UserEmail \in Emails /\ x.RefreshToken = "t1"
        \/ x.Id = "s2" /\ x.UserEmail = "a@b.com" /\ x.RefreshToken = "t2"
                       /\ x.ExpiresAt = MaxTime + 1
     /\ ~x.IsRevoked
     /\ x.CreatedAt = ZeroTime
     /\ x.ExpiresAt > now}

\* One caller of the writing and of the reading methods; a backend read may
\* fail and a session key may hold undecodable bytes; the clock advances
\* between calls.
ReadNext ==
  \/ \E p \in Solo, session \in ReadSessions : CreateSet(p, session)
  \/ \E p \in Solo : CreateSAdd(p)
  \/ \E p \in Solo : CreateExpire(p)
  \/ \E p \in Solo : RevokeGet(p, "s1")
  \/ \E p \in Solo : RevokeBlacklist(p)
  \/ \E p \in Solo : RevokeSet(p)
  \/ \E p \in Solo : DeleteGet(p, "s1")
  \/ \E p \in Solo : DeleteBlacklist(p)
  \/ \E p \in Solo : DeleteSRem(p)
  \/ \E p \in Solo : DeleteDel(p)
  \/ \E id \in Ids : Idle /\ Corrupt(id)
  \/ \E p \in Solo, id \in Ids \cup {""}, fails \in BOOLEAN : GetSessionCall(p, id, fails)
  \/ \E p \in Solo, id \in Ids \cup {""}, fails \in BOOLEAN : ServerGetSession(p, id, fails)
  \/ \E p \in Solo, token \in {"t1", ""}, fails \in BOOLEAN :
       IsTokenBlacklistedCall(p, token, fails)
  \/ \E p \in Solo, email \in Emails \cup {""}, fails \in {"none", "smembers", "mget"} :
       GetSessionsByEmailCall(p, email, fails)
  \/ (Idle /\ Tick)

ReadSpec == Init /\ [][ReadNext]_vars

\* The session the callers of RaceSpec create.
RaceSessions ==
  {x \in Session :
     /\ x.Id = "s1" /\ x.UserEmail = "a@b.com" /\ x.RefreshToken = "t1"
     /\ ~x.IsRevoked
     /\ x.CreatedAt = ZeroTime
     /\ x.ExpiresAt > now}

\* Two callers whose backend calls interleave in any order, no backend failure;
\* the clock advances when no call is in progress.
RaceNext ==
  \/ \E p \in Procs, session \in RaceSessions : CreateSet(p, session)
  \/ \E p \in Procs : CreateSAdd(p)
  \/ \E p \in Procs : CreateExpire(p)
  \/ \E p \in Procs : RevokeGet(p, "s1")
  \/ \E p \in Procs : RevokeBlacklist(p)
  \/ \E p \in Procs : RevokeSet(p)
  \/ \E p \in Procs : DeleteGet(p, "s1")
  \/ \E p \in Procs : DeleteBlacklist(p)
  \/ \E p \in Procs : DeleteSRem(p)
  \/ \E p \in Procs : DeleteDel(p)
  \/ (Idle /\ Tick)

RaceSpec == Init /\ [][RaceNext]_vars

\* The sessions the callers of FrameSpec create: "s1" and "s2" of one user, each
\* with its own token; "s2" lives as long as the clock runs.
FrameSessions ==
  {x \in Session :
     /\ \/ x.Id = "s1" /\ x.RefreshToken = "t1"
        \/ x.Id = "s2" /\ x.RefreshToken = "t2" /\ x.ExpiresAt = MaxTime + 1
     /\ x.UserEmail = "a@b.com"
     /\ ~x.IsRevoked
     /\ x.CreatedAt = ZeroTime
     /\ x.ExpiresAt > now}

\* One caller and two session ids; the backend writes of Revoke and Delete may
\* fail and the caller may die inside a handler; the clock advances between
\* calls.
FrameNext ==
  \/ \E p \in Solo, session \in FrameSessions : CreateSet(p, session)
  \/ \E p \in Solo : CreateSAdd(p)
  \/ \E p \in Solo : CreateExpire(p)
  \/ \E p \in Solo, id \in Ids : RevokeGet(p, id)
  \/ \E p \in Solo : RevokeBlacklist(p)
  \/ \E p \in Solo : RevokeBlacklistFail(p)
  \/ \E p \in Solo : RevokeSet(p)
  \/ \E p \in Solo : RevokeSetFail(p)
  \/ \E p \in Solo, id \in Ids : DeleteGet(p, id)
  \/ \E p \in Solo : DeleteBlacklist(p)
  \/ \E p \in Solo : DeleteBlacklistFail(p)
  \/ \E p \in Solo : DeleteSRem(p)
  \/ \E p \in Solo : DeleteSRemFail(p)
  \/ \E p \in Solo : DeleteDel(p)
  \/ \E p \in Solo : DeleteDelFail(p)
  \/ \E p \in Solo : Crash(p)
  \/ (Idle /\ Tick)

FrameSpec == Init /\ [][FrameNext]_vars

\* The sessions the callers of DistinctSpec create: each id has its own token,
\* which no other id carries.
DistinctSessions ==
  {x \in Session :
     /\ \/ x.Id = "s1" /\ x.UserEmail \in Emails /\ x.RefreshToken = "t1"
        \/ x.Id = "s2" /\ x.UserEmail = "a@b.com" /\ x.RefreshToken = "t2"
                       /\ x.ExpiresAt = MaxTime + 1
     /\ ~x.IsRevoked
     /\ x.CreatedAt = ZeroTime
     /\ x.ExpiresAt > now}

\* One caller, every call runs to its end, no backend failure; the clock
\* advances between calls.
DistinctNext ==
  \/ \E p \in Solo, session \in DistinctSessions : CreateSet(p, session)
  \/ \E p \in Solo : CreateSAdd(p)
  \/ \E p \in Solo : CreateExpire(p)
  \/ \E p \in Solo, id \in Ids : RevokeGet(p, id)
  \/ \E p \in Solo : RevokeBlacklist(p)
  \/ \E p \in Solo : RevokeSet(p)
  \/ \E p \in Solo, id \in Ids : DeleteGet(p, id)
  \/ \E p \in Solo : DeleteBlacklist(p)
  \/ \E p \in Solo : DeleteSRem(p)
  \/ \E p \in Solo : DeleteDel(p)
  \/ (Idle /\ Tick)

DistinctSpec == Init /\ [][DistinctNext]_vars

\* ================================================================ claims

\* The session stored under id, for an id whose key exists.
Stored(id) == Unmarshal(rec[id].data)

\* C1: for every session revoked or deleted with success, a blacklist entry of
\* its refresh token exists at every instant before the session's ExpiresAt
\* (revokedUntil[t] is the latest such ExpiresAt among the sessions of token t).
C1_BlacklistedUntilExpiresAt ==
  \A t \in Tokens : revokedUntil[t] > now => IsTokenBlacklisted(bl, t)

\* C8: every session GetSessionsByEmail(u) returns belongs to u, whatever ids
\* the index set of u holds.
C8_ListOnlyOwnSessions ==
  \A u \in Emails : \A session \in GetSessionsByEmail(rec, idx, u) : session.UserEmail = u

\* The index set of some user holds the id of a live session of another user,
\* and the call has returned.
C8_ForeignIdInIndex ==
  /\ Idle
  /\ \E u \in Emails : \E id \in SMembers(idx, u) :
       rec[id] # NoKey /\ Stored(id).UserEmail # u /\ ~Stored(id).IsRevoked

\* C9: between calls, the index set of u holds id exactly when a session record
\* with that id and user u exists.
C9_IndexIffRecord ==
  Idle => \A u \in Emails, id \in Ids :
            id \in SMembers(idx, u) <=> (rec[id] # NoKey /\ Stored(id).UserEmail = u)

C2_RevokedAndBlacklisted ==
  [][\A p \in Procs :
       (pc[p] = "r_set" /\ pc'[p] = "idle" /\ ret'[p].err = Ok
          /\ loc[p].session.ExpiresAt > now')
       => /\ IsTokenBlacklisted(bl', loc[p].session.RefreshToken)
          /\ GetSession(rec', loc[p].id) =
               [err |-> Ok, session |-> [loc[p].session EXCEPT !.IsRevoked = TRUE]]]_vars

\* A Revoke has just returned nil and the record it revoked is live.
C2_RevokeReturned ==
  \E p \in Procs :
    /\ ret[p].op = "Revoke" /\ ret[p].err = Ok /\ pc[p] = "idle"
    /\ rec[ret[p].id] # NoKey /\ Stored(ret[p].id).ExpiresAt > now

\* C3: the step on which a Delete(id) returns nil leaves GetSession(id) failing
\* with not-found, id absent from GetSessionsByEmail of the session's user, and
\* the session's refresh token blacklisted.
C3_DeletedAndBlacklisted ==
  [][\A p \in Procs :
       (pc[p] = "d_del" /\ pc'[p] = "idle" /\ ret'[p].err = Ok)
       => /\ GetSession(rec', loc[p].id).err = ErrNotFound
          /\ \A session \in GetSessionsByEmail(rec', idx', loc[p].session.UserEmail) :
               session.Id # loc[p].id
          /\ loc[p].id \notin SMembers(idx', loc[p].session.UserEmail)
          /\ IsTokenBlacklisted(bl', loc[p].session.RefreshToken)]_vars

\* A Delete has just returned nil, and another session is still stored.
C3_DeleteReturned ==
  \E p \in Procs :
    /\ ret[p].op = "Delete" /\ ret[p].err = Ok /\ pc[p] = "idle"
    /\ rec[ret[p].id] = NoKey
    /\ \E id \in Ids : rec[id] # NoKey

\* C4: a Revoke(id) that finds the record of id with IsRevoked = true returns
\* the already-revoked error at once and writes nothing.
C4_SecondRevokeRejected ==
  [][\A p \in Procs, id \in Ids :
       (rec[id] # NoKey /\ Stored(id).IsRevoked /\ RevokeGet(p, id))
       => /\ ret'[p] = [op |-> "Revoke", id |-> id, err |-> ErrAlreadyRevoked]
          /\ pc'[p] = "idle"
          /\ UNCHANGED <<rec, idx, bl>>]_vars

\* A Revoke has just been rejected as already revoked; the record and the
\* blacklist entry the first Revoke wrote are in place.
C4_RevokeRejected ==
  \E p \in Procs :
    /\ ret[p].op = "Revoke" /\ ret[p].err = ErrAlreadyRevoked
    /\ rec[ret[p].id] # NoKey /\ Stored(ret[p].id).IsRevoked
    /\ IsTokenBlacklisted(bl, Stored(ret[p].id).RefreshToken)

\* C5: a Revoke(id) that finds no record under id returns the not-found error at
\* once and writes nothing.
C5_RevokeMissingNotFound ==
  [][\A p \in Procs, id \in Ids :
       (rec[id] = NoKey /\ RevokeGet(p, id))
       => /\ ret'[p] = [op |-> "Revoke", id |-> id, err |-> ErrNotFound]
          /\ pc'[p] = "idle"
          /\ UNCHANGED <<rec, idx, bl>>]_vars

\* A Revoke has just failed with not-found while another session, an index set
\* and a blacklist entry exist.
C5_RevokeNotFound ==
  \E p \in Procs :
    /\ ret[p].op = "Revoke" /\ ret[p].err = ErrNotFound
    /\ rec[ret[p].id] = NoKey
    /\ \E id \in Ids : rec[id] # NoKey
    /\ \E t \in Tokens : bl[t] # NoKey

\* The sessions CreateSession must reject.
Invalid(session) ==
  \/ session.Id = ""
  \/ session.UserEmail = ""
  \/ session.RefreshToken = ""
  \/ session.ExpiresAt = ZeroTime
  \/ session.ExpiresAt <= now

\* C6: a Create of a session with an empty Id, UserEmail or RefreshToken, or an
\* ExpiresAt unset or not after the current time, returns a validation error at
\* once and writes nothing.
C6_InvalidCreateRejected ==
  [][\A p \in Procs, session \in InputSessions :
       (Invalid(session) /\ CreateSet(p, session))
       => /\ ret'[p].op = "Create" /\ ret'[p].err \in ValidationErrors
          /\ pc'[p] = "idle"
          /\ UNCHANGED <<rec, idx, bl>>]_vars

\* A Create has just been rejected for an ExpiresAt not in the future, with a
\* record, an index set and a blacklist entry in the store.
C6_CreateRejected ==
  \E p \in Procs :
    /\ ret[p].op = "Create" /\ ret[p].err = ErrExpirationPast
    /\ rec["s1"] # NoKey /\ idx["a@b.com"] # NoKey /\ bl["t1"] # NoKey

\* C7: a Create of a valid session is not rejected, and on the step on which it
\* returns nil GetSession(id) gives the input back, CreatedAt being the input's
\* when set and the current time otherwise.
C7_CreateThenGet ==
  [][\A p \in Procs :
       /\ \A session \in InputSessions :
            (~Invalid(session) /\ CreateSet(p, session)) => pc'[p] = "c_sadd"
       /\ pc[p] = "c_sadd" => (pc'[p] \in {"c_sadd", "c_expire"})
       /\ (pc[p] = "c_expire" /\ pc'[p] # "c_expire")
          => /\ pc'[p] = "idle" /\ ret'[p].err = Ok
             /\ LET in == loc[p].in
                    got == GetSession(rec', in.Id)
                IN /\ got.err = Ok
                   /\ got.session.Id = in.Id
                   /\ got.session.UserEmail = in.UserEmail
                   /\ got.session.RefreshToken = in.RefreshToken
                   /\ got.session.IsRevoked = in.IsRevoked
                   /\ got.session.ExpiresAt = in.ExpiresAt
                   /\ got.session.CreatedAt =
                        (IF in.CreatedAt # ZeroTime THEN in.CreatedAt ELSE now')]_vars

\* A Create whose input set CreatedAt to an earlier instant has just returned nil.
C7_CreateReturnedSetCreatedAt ==
  \E p \in Procs :
    /\ ret[p].op = "Create" /\ ret[p].err = Ok /\ pc[p] = "idle"
    /\ rec[ret[p].id] # NoKey /\ Stored(ret[p].id).CreatedAt < now

\* C11: a record stored by Create has IsRevoked = false, and a record that stays
\* under its id from one state to the next never goes from IsRevoked = true to
\* IsRevoked = false.
C11_IsRevokedStartsFalseAndStays ==
  [][\A id \in Ids :
       /\ (\E p \in Procs : pc[p] = "idle" /\ pc'[p] = "c_sadd" /\ loc'[p].session.Id = id)
          => ~Unmarshal(rec'[id].data).IsRevoked
       /\ (rec[id] # NoKey /\ Stored(id).IsRevoked /\ rec'[id] # NoKey)
          => Unmarshal(rec'[id].data).IsRevoked]_vars

\* C12: a record that stays under its id from one state to the next keeps its
\* UserEmail, RefreshToken and ExpiresAt.
C12_FieldsImmutable ==
  [][\A id \in Ids :
       (rec[id] # NoKey /\ rec'[id] # NoKey)
       => /\ Unmarshal(rec'[id].data).UserEmail = Stored(id).UserEmail
          /\ Unmarshal(rec'[id].data).RefreshToken = Stored(id).RefreshToken
          /\ Unmarshal(rec'[id].data).ExpiresAt = Stored(id).ExpiresAt]_vars

\* C13: the record key of a revoked session never expires later than the
\* session's ExpiresAt.
C13_RevokeNeverExtendsRecord ==
  \A id \in Ids :
    (rec[id] # NoKey /\ Stored(id).IsRevoked) => rec[id].exp <= Stored(id).ExpiresAt

\* C20: the blacklist entry that Revoke or Delete writes has a TTL that is
\* ExpiresAt - now when that is positive and Minute otherwise, hence positive.
C20_BlacklistTTLPositive ==
  [][\A p \in Procs :
       (pc[p] \in {"r_blacklist", "d_blacklist"} /\ pc'[p] \in {"r_set", "d_srem"})
       => LET session == loc[p].session
              entry == bl'[session.RefreshToken]
          IN /\ entry # NoKey
             /\ entry.exp - now > 0
             /\ entry.exp - now =
                  (IF session.ExpiresAt - now > 0 THEN session.ExpiresAt - now ELSE Minute)]_vars

\* Revoke or Delete has just written the blacklist entry of a session that had
\* expired since it was read: the entry lives for Minute.
C20_ClampedEntryWritten ==
  \E p \in Procs :
    /\ pc[p] \in {"r_set", "d_srem"}
    /\ loc[p].session.ExpiresAt <= now
    /\ bl[loc[p].session.RefreshToken] # NoKey
    /\ bl[loc[p].session.RefreshToken].exp = now + Minute

\* C14: the record that a successful Revoke writes has the Id, UserEmail,
\* RefreshToken, CreatedAt and ExpiresAt of the record it read, and no step of
\* Revoke changes the user index.
C14_RevokeChangesOnlyIsRevoked ==
  [][\A p \in Procs :
       /\ (now' = now /\ (pc[p] \in {"r_blacklist", "r_set"} \/ pc'[p] = "r_blacklist"))
          => idx' = idx
       /\ (pc[p] = "r_set" /\ pc'[p] = "idle" /\ ret'[p].err = Ok)
          => LET read == loc[p].session
                 written == Unmarshal(rec'[loc[p].id].data)
             IN /\ rec'[loc[p].id] # NoKey
                /\ written.Id = read.Id
                /\ written.UserEmail = read.UserEmail
                /\ written.RefreshToken = read.RefreshToken
                /\ written.CreatedAt = read.CreatedAt
                /\ written.ExpiresAt = read.ExpiresAt]_vars

\* Revoke has returned nil on a session created at an earlier time, while the
\* user index holds the session's id.
C14_RevokedLaterThanCreated ==
  \E p \in Procs, id \in Ids :
    /\ ret[p] = [op |-> "Revoke", id |-> id, err |-> Ok]
    /\ rec[id] # NoKey
    /\ Stored(id).IsRevoked
    /\ Stored(id).CreatedAt < now
    /\ id \in SMembers(idx, Stored(id).UserEmail)

\* C15: a step that stores a record with IsRevoked = true finds the record's
\* token already blacklisted, and a Revoke that stops after its blacklist write
\* without rewriting the record leaves the token blacklisted and the record
\* with IsRevoked = false.
C15_BlacklistBeforeRecord ==
  [][/\ \A id \in Ids :
          (rec'[id] # rec[id] /\ rec'[id] # NoKey /\ Unmarshal(rec'[id].data).IsRevoked)
          => IsTokenBlacklisted(bl, Unmarshal(rec'[id].data).RefreshToken)
     /\ \A p \in Procs :
          (pc[p] = "r_set" /\ pc'[p] = "idle" /\ rec' = rec)
          => /\ IsTokenBlacklisted(bl', loc[p].session.RefreshToken)
             /\ rec'[loc[p].id] # NoKey
             /\ ~Unmarshal(rec'[loc[p].id].data).IsRevoked]_vars

\* Revoke has failed at the record rewrite: the token is blacklisted and the
\* record is there with IsRevoked = false.
C15_RevokeFailedAfterBlacklist ==
  \E p \in Procs, id \in Ids :
    /\ ret[p] = [op |-> "Revoke", id |-> id, err |-> ErrUpdateFailed]
    /\ rec[id] # NoKey
    /\ ~Stored(id).IsRevoked
    /\ IsTokenBlacklisted(bl, Stored(id).RefreshToken)

\* C16: a step of Delete that removes the record finds the id already out of the
\* user's index and the token already blacklisted, and a step of Delete that
\* changes the index finds the token already blacklisted.
C16_BlacklistIndexRecordOrder ==
  [][\A p \in Procs :
       /\ (pc[p] = "d_del" /\ rec'[loc[p].id] # rec[loc[p].id])
          => /\ rec'[loc[p].id] = NoKey
             /\ loc[p].id \notin SMembers(idx, loc[p].session.UserEmail)
             /\ IsTokenBlacklisted(bl, loc[p].session.RefreshToken)
       /\ (pc[p] = "d_srem" /\ idx' # idx)
          => IsTokenBlacklisted(bl, loc[p].session.RefreshToken)]_vars

\* Delete has failed at the record removal: the record is still there, its id is
\* out of the user's index and its token is blacklisted.
C16_DeleteFailedAfterIndex ==
  \E p \in Procs, id \in Ids :
    /\ ret[p] = [op |-> "Delete", id |-> id, err |-> ErrDeleteFailed]
    /\ rec[id] # NoKey
    /\ id \notin SMembers(idx, Stored(id).UserEmail)
    /\ IsTokenBlacklisted(bl, Stored(id).RefreshToken)

\* C17: a Create whose EXPIRE failed returns an error after it has issued the DEL
\* of the record and the SREM of the id; when both succeeded, GetSession(id) gives
\* not-found and the user's index does not hold the id.
C17_ExpireFailureCompensated ==
  [][\A p \in Procs :
       /\ (pc[p] = "c_expire" /\ pc'[p] # "idle" /\ pc'[p] # "c_expire")
          => pc'[p] = "c_expire_undo_del"
       /\ (pc[p] = "c_expire_fail" /\ pc'[p] = "idle" /\ ret'[p].op = "Create")
          => /\ ret'[p].err = ErrExpireFailed
             /\ (loc[p].delOk /\ loc[p].sremOk)
                => /\ GetSession(rec', loc[p].session.Id).err = ErrNotFound
                   /\ loc[p].session.Id \notin SMembers(idx', loc[p].session.UserEmail)]_vars

\* Create has returned the error of the failed EXPIRE: the id has no record and
\* is in no user index.
C17_CompensatedCreateReturned ==
  \E p \in Procs, id \in Ids :
    /\ ret[p] = [op |-> "Create", id |-> id, err |-> ErrExpireFailed]
    /\ rec[id] = NoKey
    /\ \A e \in Emails : id \notin SMembers(idx, e)

\* C18: the step in which Create returns the error of the failed record SET
\* leaves the record keys and every user index, members and TTL, as they were.
C18_SaveFailureTouchesNoIndex ==
  [][\A p \in Procs :
       (pc[p] = "idle" /\ ret'[p].op = "Create" /\ ret'[p].err = ErrSaveFailed)
       => /\ idx' = idx
          /\ rec' = rec
          /\ pc'[p] = "idle"]_vars

\* Create has returned the error of the failed record SET while a user index
\* exists.
C18_SaveFailedReturned ==
  \E p \in Procs, id \in Ids :
    /\ ret[p] = [op |-> "Create", id |-> id, err |-> ErrSaveFailed]
    /\ \E e \in Emails : idx[e] # NoKey

\* C19: the record that the server's CreateSession stores has the ExpiresAt of the
\* request when the request carries one, and now + SessionTTL otherwise.
C19_CallerExpiresAtKept ==
  [][\A p \in Procs, req \in SessionReq :
       (ServerCreateSession(p, req) /\ pc'[p] = "c_sadd")
       => Unmarshal(rec'[req.Id].data).ExpiresAt =
            (IF req.HasExpiresAt THEN req.ExpiresAt ELSE now + SessionTTL)]_vars

\* C21: a Get of a non-empty id, by the store or by the gRPC server, changes no
\* key, and reports not-found exactly when the read succeeded and no key is under
\* the id; the store reports undecodable bytes and a failed read by their own
\* errors.
C21_GetDistinguishesOutcomes ==
  [][\A p \in Procs, id \in Ids, fails \in BOOLEAN :
       /\ GetSessionCall(p, id, fails)
          => /\ store' = store
             /\ (ret'[p].err = ErrNotFound) <=> (~fails /\ rec[id] = NoKey)
             /\ fails => ret'[p].err = ErrGetFailed
             /\ (~fails /\ rec[id] # NoKey /\ ~Decodes(rec[id].data))
                => ret'[p].err = ErrUnmarshal
       /\ ServerGetSession(p, id, fails)
          => /\ store' = store
             /\ (ret'[p].err = CodeNotFound) <=> (~fails /\ rec[id] = NoKey)]_vars

\* C22: IsTokenBlacklisted of a non-empty token changes no key, returns an error
\* exactly when the backend call fails, and otherwise returns true exactly when
\* the token's blacklist key exists.
C22_IsBlacklistedExistenceCheck ==
  [][\A p \in Procs, token \in Tokens, fails \in BOOLEAN :
       IsTokenBlacklistedCall(p, token, fails)
       => /\ store' = store
          /\ (ret'[p].err # Ok) <=> fails
          /\ ~fails => (ret'[p].val <=> bl[token] # NoKey)
          /\ fails => ~ret'[p].val]_vars

\* IsTokenBlacklisted has returned true for a token whose session was revoked or
\* deleted.
C22_BlacklistedTokenReported ==
  \E p \in Procs, token \in Tokens :
    /\ ret[p] = [op |-> "IsBlacklisted", id |-> token, err |-> Ok, val |-> TRUE]
    /\ bl[token] # NoKey

\* C23: when its backend reads succeed, GetSessionsByEmail of a user returns
\* without error exactly the sessions whose id is in the user's index, whose
\* record exists and decodes, whose UserEmail is the user and whose IsRevoked is
\* false; it changes no key.
C23_ListReturnsOwnLiveSessions ==
  [][\A p \in Procs, email \in Emails :
       GetSessionsByEmailCall(p, email, "none")
       => /\ store' = store
          /\ ret'[p].err = Ok
          /\ ret'[p].sessions =
               {Unmarshal(rec[id].data) :
                  id \in {i \in Ids :
                            /\ idx[email] # NoKey
                            /\ i \in idx[email].members
                            /\ rec[i] # NoKey
                            /\ Decodes(rec[i].data)
                            /\ Unmarshal(rec[i].data).UserEmail = email
                            /\ ~Unmarshal(rec[i].data).IsRevoked}}]_vars

\* GetSessionsByEmail has returned one session of a user whose index also holds
\* an id that it skipped.
C23_ListSkippedAnId ==
  \E p \in Procs, email \in Emails :
    /\ ret[p].op = "List" /\ ret[p].id = email /\ ret[p].err = Ok
    /\ Cardinality(ret[p].sessions) = 1
    /\ Cardinality(SMembers(idx, email)) = 2

\* C24: the gRPC RevokeSession returns, for a session that is already revoked,
\* a code that is neither the one of a backend fault nor the one of not-found.
C24_AlreadyRevokedHasOwnCode ==
  [][\A p \in Procs :
       (ServerRevokeReturn(p) /\ ret[p].err = ErrAlreadyRevoked)
       => ret'[p].err \notin {CodeInternal, CodeNotFound}]_vars

\* C25: a Delete that stops at its blacklist write leaves every key as it was;
\* a Delete that stops at its index removal, by an error or by the death of the
\* caller, changes no key: GetSession still gives the record, the index is as it
\* was and the token is blacklisted; the failed call returns an error.
C25_DeleteDoesNotRollBack ==
  [][\A p \in Procs :
       /\ (pc[p] = "d_blacklist" /\ pc'[p] = "idle")
          => /\ store' = store
             /\ ret'[p].op = "Delete" => ret'[p].err # Ok
       /\ (pc[p] = "d_srem" /\ pc'[p] = "idle")
          => /\ ret'[p].op = "Delete" => ret'[p].err # Ok
             /\ GetSession(rec', loc[p].id) = [err |-> Ok, session |-> loc[p].session]
             /\ idx' = idx
             /\ IsTokenBlacklisted(bl', loc[p].session.RefreshToken)]_vars

\* Delete has returned the error of the failed index removal: the record is
\* stored, its id is in the index of its user and its token is blacklisted.
C25_DeleteFailedAtIndex ==
  \E p \in Procs, id \in Ids :
    /\ ret[p] = [op |-> "Delete", id |-> id, err |-> ErrSRemFailed]
    /\ rec[id] # NoKey
    /\ id \in SMembers(idx, Stored(id).UserEmail)
    /\ IsTokenBlacklisted(bl, Stored(id).RefreshToken)

\* C26: Create returns the error of the failed index step whether its
\* compensating calls succeed or not, and when the compensating DEL fails
\* GetSession still gives the record that Create wrote.
C26_CompensationBestEffort ==
  [][\A p \in Procs :
       /\ \A ok \in BOOLEAN :
            CreateSAddUndoDel(p, ok)
            => /\ ret'[p].err = ErrIndexFailed
               /\ ~ok => GetSession(rec', loc[p].session.Id)
                           = [err |-> Ok, session |-> loc[p].session]
       /\ CreateExpireReturn(p)
          => /\ ret'[p].err = ErrExpireFailed
             /\ ~loc[p].delOk => GetSession(rec', loc[p].session.Id)
                                   = [err |-> Ok, session |-> loc[p].session]]_vars

\* Create has returned the error of the failed SADD and its record is stored
\* while no index holds its id.
C26_OrphanedRecord ==
  \E p \in Procs, id \in Ids :
    /\ ret[p] = [op |-> "Create", id |-> id, err |-> ErrIndexFailed]
    /\ rec[id] # NoKey
    /\ \A e \in Emails : id \notin SMembers(idx, e)

\* C29: a Create that returns an error leaves the record that was under the id
\* before the call stored with the same bytes, and the id in the index of that
\* record's user if it was there.
C29_FailedCreateKeepsOldSession ==
  [][\A p \in Procs :
       /\ (pc[p] = "idle" /\ pc'[p] = "idle" /\ ret'[p].op = "Create" /\ ret'[p].err # Ok)
          => store' = store
       /\ (pc[p] \in {"c_sadd_undo", "c_expire_fail"} /\ pc'[p] = "idle"
           /\ ret'[p].op = "Create" /\ loc[p].old # NoKey)
          => LET id == loc[p].session.Id
                 user == Unmarshal(loc[p].old.data).UserEmail
             IN /\ rec'[id] # NoKey
                /\ rec'[id].data = loc[p].old.data
                /\ id \in SMembers(loc[p].oldIdx, user) => id \in SMembers(idx', user)]_vars

\* C27: a Revoke that returns nil after a concurrent Delete of the same id has
\* removed the record and returned nil leaves no record under the id.
C27_RevokeNeverResurrects ==
  [][\A p \in Procs, q \in Procs :
       (/\ p # q
        /\ pc[p] = "r_set" /\ pc'[p] = "idle" /\ ret'[p].err = Ok
        /\ ret[q] = [op |-> "Delete", id |-> loc[p].id, err |-> Ok]
        /\ rec[loc[p].id] = NoKey)
       => GetSession(rec', loc[p].id).err = ErrNotFound]_vars

\* C28: a Revoke whose record was revoked by a concurrent Revoke between its read
\* and its rewrite returns the already-revoked error.
C28_OneConcurrentRevokeWins ==
  [][\A p \in Procs, q \in Procs :
       (/\ p # q
        /\ pc[p] = "r_set" /\ pc'[p] = "idle"
        /\ ret[q] = [op |-> "Revoke", id |-> loc[p].id, err |-> Ok]
        /\ rec[loc[p].id] # NoKey
        /\ Stored(loc[p].id).IsRevoked)
       => ret'[p].err = ErrAlreadyRevoked]_vars

\* C30: when no call is in progress, every session key, every index key and every
\* blacklist key that exists has a TTL.
C30_EveryKeyHasTTL ==
  Idle =>
    /\ \A id \in Ids : rec[id] # NoKey => rec[id].exp # NoTTL
    /\ \A e \in Emails : idx[e] # NoKey => idx[e].exp # NoTTL
    /\ \A t \in Tokens : bl[t] # NoKey => bl[t].exp # NoTTL

\* C31: no step of a Revoke or a Delete of an id, the failing and the dying ones
\* included, changes the record of another id or the membership of another id
\* in any user index.
C31_OtherSessionsUntouched ==
  [][\A p \in Procs :
       LET steps == {"r_blacklist", "r_set", "d_blacklist", "d_srem", "d_del"}
           id == IF pc[p] \in steps THEN loc[p].id ELSE loc'[p].id
       IN (pc[p] \in steps \/ pc'[p] \in steps)
          => \A other \in Ids \ {id} :
               /\ rec'[other] = rec[other]
               /\ \A e \in Emails :
                    (other \in SMembers(idx', e)) <=> (other \in SMembers(idx, e))]_vars

\* Delete of "s1" has returned nil while "s2" is stored and is in the index of
\* the user of "s1".
C31_DeletedNextToAnother ==
  \E p \in Procs :
    /\ ret[p] = [op |-> "Delete", id |-> "s1", err |-> Ok]
    /\ rec["s1"] = NoKey
    /\ rec["s2"] # NoKey
    /\ "s2" \in SMembers(idx, "a@b.com")

\* C32: when no call is in progress, every session that GetSession or
\* GetSessionsByEmail returns with IsRevoked = false has a token that
\* IsTokenBlacklisted reports as not blacklisted.
C32_LiveSessionTokenNotBlacklisted ==
  Idle =>
    /\ \A id \in Ids :
         LET got == GetSession(rec, id)
         IN (got.err = Ok /\ ~got.session.IsRevoked)
            => ~IsTokenBlacklisted(bl, got.session.RefreshToken)
    /\ \A e \in Emails :
         \A session \in GetSessionsByEmail(rec, idx, e) :
           ~IsTokenBlacklisted(bl, session.RefreshToken)

====
